---- MODULE Spec2Model ----
(***************************************************************************)
(* The quiz application: the multi-category component                      *)
(* (quiz-app/src/App.jsx) and the single-category component                *)
(* (unnamed/part_000).  One React component each: six (five) pieces of     *)
(* state, two effects (load on mount, save after every render whose        *)
(* dependencies changed), click handlers that update state at once and     *)
(* schedule a 300 ms timer whose callback works on the values the handler  *)
(* closed over, and localStorage under one key.                            *)
(*                                                                         *)
(* A step of the model is one task of the browser's event loop together    *)
(* with the render and the effects React runs for it: a click (handler,    *)
(* render, save effect) or a timer callback (callback, render, save        *)
(* effect).  All timers have the same delay, so they fire in the order     *)
(* they were set.  The updates one handler or callback makes are rendered  *)
(* together.  A render that throws leaves the component unmounted: the     *)
(* state variables then hold the values that render was given.             *)
(* isTransitioning disables no control: a click is possible whenever its   *)
(* button is rendered.  Option texts are taken to be non-empty strings.    *)
(***************************************************************************)
EXTENDS Integers, Sequences, FiniteSets, TLC

\* ------------------------------------------------------------------ bounds
\* questions in part1.json / part2.json (multi) and part1.json (single)
NumQuestionsPart1 == 2
NumQuestionsPart2 == 1
NumQuestionsSingle == 3
\* timers that may be pending at once
MaxTimers == 2

\* option texts (non-empty strings; every question offers the same ones)
Options == {"a", "b"}

\* ------------------------------------------------------------ program data
Null == "null"

SCREENS == [HOME |-> "home", QUIZ |-> "quiz", RESULTS |-> "results"]

CATEGORIES == [PART1 |-> NumQuestionsPart1, PART2 |-> NumQuestionsPart2]

CategoryKeys == DOMAIN CATEGORIES

Variants == {"multi", "single"}

VARIABLES
    variant,            \* which of the two components runs
    phase,              \* "init" before the mount effects, "ready", "crashed"
    screen, selectedCategory, currentQuestion, userAnswers, selectedOption,
    isTransitioning,
    store,              \* localStorage[STORAGE_KEY]
    timers,             \* pending setTimeout callbacks with what they closed over
    lastDone,           \* history: the transition that completed undisturbed,
                        \* while nothing but a Previous click has happened since
    leftSession,        \* history: the session an inactive category had when
                        \* it was left
    questions,          \* the question records the results screen is computed
                        \* from (navigation only needs their number: CATEGORIES)
    results             \* what the results screen derived and displays

state == <<screen, selectedCategory, currentQuestion, userAnswers, selectedOption>>

vars == <<variant, phase, screen, selectedCategory, currentQuestion, userAnswers,
          selectedOption, isTransitioning, store, timers, lastDone, leftSession,
          questions, results>>

\* ---------------------------------------------------------------- helpers
\* a JavaScript object used as a map from question index to option text
EmptyAnswers == [i \in {} |-> "a"]

\* faulty variant: the handler forgets to record the selection
Commit_Nothing(answers, k, option) == answers

\* { ...answers, [k]: option }
Commit(answers, k, option) == (k :> option) @@ answers

\* answers[k] || null
AnswerOrNull(answers, k) == IF k \in DOMAIN answers THEN answers[k] ELSE Null

\* obj[field] || default, for a field whose values other than null, 0 and
\* undefined are truthy
FieldOr(obj, field, default) ==
    IF field \in DOMAIN obj /\ obj[field] # Null THEN obj[field] ELSE default

\* the same for a field that holds a number (0 is falsy and the default is 0)
\* or an object (always truthy)
PresentOr(obj, field, default) ==
    IF field \in DOMAIN obj THEN obj[field] ELSE default

\* `questions`: the question list the render sees
questionsLength(v, category) ==
    IF v = "single" THEN NumQuestionsSingle
    ELSE IF category = Null THEN 0 ELSE CATEGORIES[category]

DefaultSession == [currentQuestion |-> 0, userAnswers |-> EmptyAnswers,
                   selectedOption |-> Null]

\* the five useState initial values
InitialState == [screen |-> SCREENS.HOME, selectedCategory |-> Null,
                 currentQuestion |-> 0, userAnswers |-> EmptyAnswers,
                 selectedOption |-> Null]

Current == [screen |-> screen, selectedCategory |-> selectedCategory,
            currentQuestion |-> currentQuestion, userAnswers |-> userAnswers,
            selectedOption |-> selectedOption]

\* ------------------------------------------------------------ localStorage
Absent == [kind |-> "absent"]
Corrupt == [kind |-> "corrupt"]
\* storage is disabled: every read and every write throws
Unavailable == [kind |-> "unavailable"]
\* the quota is exceeded: the key is absent and every write throws
QuotaExceeded == [kind |-> "full"]
Doc(d) == [kind |-> "doc", doc |-> d]

NoCategories == [c \in {} |-> DefaultSession]

\* parsed.categories?.[categoryKey] || null, as a set of at most one session
getSavedCategoryData(st, categoryKey) ==
    IF st.kind = "doc" /\ "categories" \in DOMAIN st.doc
       /\ categoryKey \in DOMAIN st.doc.categories
    THEN {st.doc.categories[categoryKey]}
    ELSE {}

\* the save effect of the multi-category component
SaveMulti(st, s) ==
    IF st.kind \in {"corrupt", "unavailable", "full"} THEN st
    ELSE LET existing == IF st.kind = "doc" THEN st.doc
                         ELSE [categories |-> NoCategories]
             view == [screen |-> s.screen, selectedCategory |-> s.selectedCategory]
             session == [currentQuestion |-> s.currentQuestion,
                         userAnswers |-> s.userAnswers,
                         selectedOption |-> s.selectedOption]
             oldCats == IF "categories" \in DOMAIN existing
                        THEN existing.categories ELSE NoCategories
         IN  IF s.selectedCategory # Null
             THEN Doc([currentView |-> view,
                       categories |-> (s.selectedCategory :> session) @@ oldCats])
             ELSE IF "categories" \in DOMAIN existing
                  THEN Doc([currentView |-> view, categories |-> existing.categories])
                  ELSE Doc([currentView |-> view])

\* the save effect of the single-category component
SaveSingle(st, s) ==
    Doc([screen |-> s.screen, currentQuestion |-> s.currentQuestion,
         userAnswers |-> s.userAnswers, selectedOption |-> s.selectedOption])

SaveEffect(v, st, s) == IF v = "multi" THEN SaveMulti(st, s) ELSE SaveSingle(st, s)

\* faulty variant: the effect runs on the first render only
AfterRender_Never(v, st, old, new, newAnswersObject) == st

\* The effect runs after a render in which a dependency changed: a scalar
\* that differs, or userAnswers set to a new object.
AfterRender(v, st, old, new, newAnswersObject) ==
    IF newAnswersObject \/ old # new THEN SaveEffect(v, st, new) ELSE st

\* faulty variant: JSON.parse is called outside the try block as well
LoadThrows_Parse(v, st) == st.kind \in {"unavailable", "corrupt"}

\* getItem is called outside the try block of either load effect
LoadThrows(v, st) == st.kind = "unavailable"

\* setItem is called outside any try block in the single-category component
SaveThrows(v, st) == v = "single" /\ st.kind \in {"unavailable", "full"}

\* the load effect of the multi-category component
LoadMulti(st) ==
    IF st.kind # "doc" THEN InitialState
    ELSE LET parsed == st.doc
             view == IF "currentView" \in DOMAIN parsed THEN parsed.currentView
                     ELSE [x \in {} |-> Null]
             savedCategory == FieldOr(view, "selectedCategory", Null)
             base == [InitialState EXCEPT
                        !.screen = FieldOr(view, "screen", SCREENS.HOME),
                        !.selectedCategory = savedCategory]
         IN  IF savedCategory # Null /\ "categories" \in DOMAIN parsed
                /\ savedCategory \in DOMAIN parsed.categories
             THEN LET categoryState == parsed.categories[savedCategory]
                  IN  [base EXCEPT
                         !.currentQuestion = PresentOr(categoryState, "currentQuestion", 0),
                         !.userAnswers = PresentOr(categoryState, "userAnswers", EmptyAnswers),
                         !.selectedOption = FieldOr(categoryState, "selectedOption", Null)]
             ELSE base

\* the load effect of the single-category component
LoadSingle(st) ==
    IF st.kind # "doc" THEN InitialState
    ELSE LET parsed == st.doc
         IN  [InitialState EXCEPT
                !.screen = FieldOr(parsed, "screen", SCREENS.HOME),
                !.currentQuestion = PresentOr(parsed, "currentQuestion", 0),
                !.userAnswers = PresentOr(parsed, "userAnswers", EmptyAnswers),
                !.selectedOption = FieldOr(parsed, "selectedOption", Null)]

LoadEffect(v, st) == IF v = "multi" THEN LoadMulti(st) ELSE LoadSingle(st)

\* ------------------------------------------------------------------ render
\* The render throws when it dereferences the question or the category and
\* there is none.
RenderThrows(v, s) ==
    \/ /\ s.screen = SCREENS.QUIZ
       /\ s.currentQuestion \notin 0 .. (questionsLength(v, s.selectedCategory) - 1)
    \/ /\ v = "multi"
       /\ s.screen \in {SCREENS.QUIZ, SCREENS.RESULTS}
       /\ s.selectedCategory = Null

isLastQuestion == currentQuestion = questionsLength(variant, selectedCategory) - 1

\* --------------------------------------------------------------- histories
NoneDone == [kind |-> "none"]

NotLeft == [kind |-> "none"]

\* the results screen has not been rendered
NotRendered == [kind |-> "none"]

\* ------------------------------------------------------------------- mount
\* documents the application itself wrote in an earlier visit
SavedMulti ==
    Doc([currentView |-> [screen |-> SCREENS.QUIZ, selectedCategory |-> "PART1"],
         categories |-> ("PART1" :> [currentQuestion |-> 1,
                                     userAnswers |-> (0 :> "a"),
                                     selectedOption |-> Null])])

SavedSingle ==
    Doc([screen |-> SCREENS.QUIZ, currentQuestion |-> 1,
         userAnswers |-> (0 :> "a"), selectedOption |-> "b"])

InitStores(v) == IF v = "multi" THEN {Absent, SavedMulti} ELSE {Absent, SavedSingle}

Init ==
    /\ variant \in Variants
    /\ phase = "init"
    /\ screen = InitialState.screen
    /\ selectedCategory = InitialState.selectedCategory
    /\ currentQuestion = InitialState.currentQuestion
    /\ userAnswers = InitialState.userAnswers
    /\ selectedOption = InitialState.selectedOption
    /\ isTransitioning = FALSE
    /\ store \in InitStores(variant)
    /\ timers = <<>>
    /\ lastDone = NoneDone
    /\ leftSession = [c \in CategoryKeys |-> NotLeft]
    /\ questions = <<>>
    /\ results = NotRendered

\* what the store may hold when the page is opened: nothing, a value that
\* is not JSON, any part of a document written earlier; or it does not work
Restrict(f, S) == [x \in S |-> f[x]]

Parts(f) == {Restrict(f, S) : S \in SUBSET DOMAIN f}

PartsMulti ==
    LET views == Parts([screen |-> SCREENS.QUIZ, selectedCategory |-> "PART1"])
        sessions == Parts([currentQuestion |-> 1, userAnswers |-> (0 :> "a"),
                           selectedOption |-> "b"])
        categories == {("PART1" :> s) : s \in sessions}
    IN  {[currentView |-> v, categories |-> c] : v \in views, c \in categories}
          \cup {[currentView |-> v] : v \in views}
          \cup {[categories |-> c] : c \in categories}
          \cup {[x \in {} |-> Null]}

BootStores(v) ==
    {Absent, Corrupt, Unavailable, QuotaExceeded}
      \cup {Doc(d) : d \in IF v = "multi" THEN PartsMulti ELSE Parts(SavedSingle.doc)}

InitBoot ==
    /\ variant \in Variants
    /\ phase = "init"
    /\ screen = InitialState.screen
    /\ selectedCategory = InitialState.selectedCategory
    /\ currentQuestion = InitialState.currentQuestion
    /\ userAnswers = InitialState.userAnswers
    /\ selectedOption = InitialState.selectedOption
    /\ isTransitioning = FALSE
    /\ store \in BootStores(variant)
    /\ timers = <<>>
    /\ lastDone = NoneDone
    /\ leftSession = [c \in CategoryKeys |-> NotLeft]
    /\ questions = <<>>
    /\ results = NotRendered

\* assign the five pieces of state
SetState(new) ==
    /\ screen' = new.screen
    /\ selectedCategory' = new.selectedCategory
    /\ currentQuestion' = new.currentQuestion
    /\ userAnswers' = new.userAnswers
    /\ selectedOption' = new.selectedOption

\* setUserAnswers was called by the load effect
LoadSetsAnswers(v, st) ==
    /\ st.kind = "doc"
    /\ \/ v = "single"
       \/ LET loaded == LoadMulti(st)
          IN  /\ loaded.selectedCategory # Null
              /\ "categories" \in DOMAIN st.doc
              /\ loaded.selectedCategory \in DOMAIN st.doc.categories

\* Mount: the load effect reads the store and queues its updates, the save
\* effect runs with the initial state, then the queued updates render and
\* the save effect runs again if a dependency changed.
Mount ==
    /\ phase = "init"
    /\ IF LoadThrows(variant, store) \/ SaveThrows(variant, store)
       THEN phase' = "crashed" /\ UNCHANGED <<state, store>>
       ELSE LET loaded == LoadEffect(variant, store)
                first == SaveEffect(variant, store, InitialState)
            IN  /\ SetState(loaded)
                /\ IF RenderThrows(variant, loaded)
                   THEN phase' = "crashed" /\ store' = first
                   ELSE /\ phase' = "ready"
                        /\ store' = AfterRender(variant, first, InitialState, loaded,
                                                LoadSetsAnswers(variant, store))
    /\ UNCHANGED <<variant, questions, results, isTransitioning, timers, lastDone, leftSession>>

\* ---------------------------------------------------------------- handlers
\* what a timer callback closes over: the values of the render whose handler
\* set the timer (seen), the handler's argument, and the answers the handler
\* passed to setUserAnswers (set; the render's own userAnswers if it did not)
Closure(kind, arg, set) == [kind |-> kind, arg |-> arg, seen |-> Current, set |-> set]

\* the closure of a callback that reads neither the index, the answers nor
\* the selection: those are left out of the record
ScreenClosure(kind, arg) ==
    [kind |-> kind, arg |-> arg,
     seen |-> [InitialState EXCEPT !.screen = screen,
                                   !.selectedCategory = selectedCategory],
     set |-> EmptyAnswers]

\* a control of the rendered screen can be clicked
CanClick(v, onScreens) ==
    /\ variant = v
    /\ phase = "ready"
    /\ screen \in onScreens
    /\ Len(timers) < MaxTimers

\* a handler that only raises the flag and sets its timer
JustSchedule(kind, arg) ==
    /\ isTransitioning' = TRUE
    /\ timers' = Append(timers, ScreenClosure(kind, arg))
    /\ lastDone' = NoneDone
    /\ UNCHANGED <<variant, questions, results, phase, state, store, leftSession>>

selectCategory(categoryKey) ==
    /\ CanClick("multi", {SCREENS.HOME})
    /\ JustSchedule("select", categoryKey)

startQuiz ==
    /\ CanClick("single", {SCREENS.HOME})
    /\ JustSchedule("start", Null)

selectOption(option) ==
    /\ phase = "ready"
    /\ screen = SCREENS.QUIZ
    /\ selectedOption' = option
    /\ store' = AfterRender(variant, store, Current,
                            [Current EXCEPT !.selectedOption = option], FALSE)
    /\ lastDone' = NoneDone
    /\ UNCHANGED <<variant, questions, results, phase, screen, selectedCategory, currentQuestion,
                   userAnswers, isTransitioning, timers, leftSession>>

\* a handler that commits the selection, raises the flag and sets its timer
CommitAndSchedule(kind) ==
    LET newAnswers == Commit(userAnswers, currentQuestion, selectedOption)
    IN  /\ isTransitioning' = TRUE
        /\ userAnswers' = newAnswers
        /\ store' = AfterRender(variant, store, Current,
                                [Current EXCEPT !.userAnswers = newAnswers], TRUE)
        /\ timers' = Append(timers, Closure(kind, Null, newAnswers))
        /\ lastDone' = IF kind = "prev" THEN lastDone ELSE NoneDone
        /\ UNCHANGED <<variant, questions, results, phase, screen, selectedCategory, currentQuestion,
                       selectedOption, leftSession>>

\* faulty variant: no early return when nothing is selected
nextQuestionHandler_NoGuard == CommitAndSchedule("next")

nextQuestionHandler ==
    IF selectedOption = Null THEN UNCHANGED vars
    ELSE CommitAndSchedule("next")

\* the Next button: rendered on every question but the last
nextQuestion ==
    /\ phase = "ready"
    /\ screen = SCREENS.QUIZ
    /\ Len(timers) < MaxTimers
    /\ ~isLastQuestion
    /\ nextQuestionHandler

prevQuestionHandler ==
    IF currentQuestion = 0 THEN UNCHANGED vars
    ELSE IF selectedOption # Null THEN CommitAndSchedule("prev")
    ELSE /\ isTransitioning' = TRUE
         /\ timers' = Append(timers, Closure("prev", Null, userAnswers))
         /\ UNCHANGED <<variant, questions, results, phase, state, store, lastDone, leftSession>>

\* the Previous button: rendered on every question
prevQuestion ==
    /\ phase = "ready"
    /\ screen = SCREENS.QUIZ
    /\ Len(timers) < MaxTimers
    /\ prevQuestionHandler

\* faulty variant: no early return when nothing is selected
finishQuizHandler_NoGuard == CommitAndSchedule("finish")

finishQuizHandler ==
    IF selectedOption = Null THEN UNCHANGED vars
    ELSE CommitAndSchedule("finish")

\* the Finish button: rendered on the last question
finishQuiz ==
    /\ phase = "ready"
    /\ screen = SCREENS.QUIZ
    /\ Len(timers) < MaxTimers
    /\ isLastQuestion
    /\ finishQuizHandler

restartQuiz ==
    /\ phase = "ready"
    /\ screen = SCREENS.RESULTS
    /\ Len(timers) < MaxTimers
    /\ JustSchedule("restart", Null)

goToHome ==
    /\ CanClick("multi", {SCREENS.QUIZ, SCREENS.RESULTS})
    /\ JustSchedule("home", Null)

\* the handler called on the last question, where no Next button is rendered
nextQuestionOnLast ==
    /\ phase = "ready"
    /\ screen = SCREENS.QUIZ
    /\ Len(timers) < MaxTimers
    /\ isLastQuestion
    /\ nextQuestionHandler

\* --------------------------------------------------------- timer callbacks
\* the state the handler left behind is still the rendered state, and no
\* other transition is in flight
Undisturbed(t) ==
    /\ Len(timers) = 1
    /\ IF t.kind \in {"next", "prev", "finish"}
       THEN Current = [t.seen EXCEPT !.userAnswers = t.set]
       ELSE screen = t.seen.screen /\ selectedCategory = t.seen.selectedCategory

SessionOf(s) == [currentQuestion |-> s.currentQuestion, userAnswers |-> s.userAnswers,
                 selectedOption |-> s.selectedOption]

\* the callback's updates are rendered and the save effect runs; `st` is the
\* store as the callback itself left it
Complete(t, new, newAnswersObject, st) ==
    /\ timers' = Tail(timers)
    /\ SetState(new)
    /\ isTransitioning' = FALSE
    /\ IF RenderThrows(variant, new)
       THEN /\ phase' = "crashed"
            /\ store' = st
            /\ lastDone' = NoneDone
            /\ leftSession' = leftSession
       ELSE /\ phase' = phase
            /\ store' = AfterRender(variant, st, Current, new, newAnswersObject)
            /\ lastDone' = IF Undisturbed(t)
                           THEN [kind |-> t.kind, k |-> t.seen.currentQuestion,
                                 option |-> t.seen.selectedOption]
                           ELSE NoneDone
            /\ leftSession' =
                 [c \in CategoryKeys |->
                    IF c = new.selectedCategory THEN NotLeft
                    ELSE IF c = selectedCategory
                         THEN [kind |-> "left", session |-> SessionOf(Current)]
                         ELSE leftSession[c]]
    /\ UNCHANGED <<variant, questions, results>>

Due(kind) ==
    /\ phase = "ready"
    /\ timers # <<>>
    /\ Head(timers).kind = kind

Reset(s, toScreen) == [s EXCEPT !.screen = toScreen, !.currentQuestion = 0,
                                !.userAnswers = EmptyAnswers, !.selectedOption = Null]

selectCategoryTimeout ==
    /\ Due("select")
    /\ LET t == Head(timers)
           savedCategoryState == getSavedCategoryData(store, t.arg)
           opened == [Current EXCEPT !.selectedCategory = t.arg,
                                     !.screen = SCREENS.QUIZ]
           new == IF savedCategoryState # {}
                  THEN LET saved == CHOOSE x \in savedCategoryState : TRUE
                       IN  [opened EXCEPT
                              !.currentQuestion = PresentOr(saved, "currentQuestion", 0),
                              !.userAnswers = PresentOr(saved, "userAnswers", EmptyAnswers),
                              !.selectedOption = FieldOr(saved, "selectedOption", Null)]
                  ELSE Reset(opened, SCREENS.QUIZ)
       IN  Complete(t, new, TRUE, store)

startQuizTimeout ==
    /\ Due("start")
    /\ Complete(Head(timers), Reset(Current, SCREENS.QUIZ), TRUE, store)

nextQuestionTimeout ==
    /\ Due("next")
    /\ LET t == Head(timers)
           k == t.seen.currentQuestion
           new == IF k < questionsLength(variant, t.seen.selectedCategory) - 1
                  THEN [Current EXCEPT !.currentQuestion = k + 1,
                                       !.selectedOption = AnswerOrNull(t.set, k + 1)]
                  ELSE Current
       IN  Complete(t, new, FALSE, store)

\* faulty variant: the selection is restored from the question being left
prevQuestionTimeout_WrongIndex ==
    /\ Due("prev")
    /\ LET t == Head(timers)
           k == t.seen.currentQuestion
           new == [Current EXCEPT
                     !.currentQuestion = k - 1,
                     !.selectedOption = AnswerOrNull(t.seen.userAnswers, k)]
       IN  Complete(t, new, FALSE, store)

prevQuestionTimeout ==
    /\ Due("prev")
    /\ LET t == Head(timers)
           k == t.seen.currentQuestion
           new == [Current EXCEPT
                     !.currentQuestion = k - 1,
                     !.selectedOption = AnswerOrNull(t.seen.userAnswers, k - 1)]
       IN  Complete(t, new, FALSE, store)

finishQuizTimeout ==
    /\ Due("finish")
    /\ Complete(Head(timers), [Current EXCEPT !.screen = SCREENS.RESULTS], FALSE, store)

\* faulty variant: the question shown before the restart is kept
restartQuizTimeout_KeepIndex ==
    /\ Due("restart")
    /\ LET new == [Current EXCEPT !.screen = SCREENS.QUIZ,
                                  !.userAnswers = EmptyAnswers,
                                  !.selectedOption = Null]
       IN  IF variant = "multi"
           THEN Complete(Head(timers), new, TRUE, store)
           ELSE Complete(Head(timers), [new EXCEPT !.screen = SCREENS.HOME], TRUE, Absent)

restartQuizTimeout ==
    /\ Due("restart")
    /\ IF variant = "multi"
       THEN Complete(Head(timers), Reset(Current, SCREENS.QUIZ), TRUE, store)
       ELSE Complete(Head(timers), Reset(Current, SCREENS.HOME), TRUE, Absent)

\* faulty variant: the category stays selected
goToHomeTimeout_KeepCategory ==
    /\ Due("home")
    /\ Complete(Head(timers), Reset(Current, SCREENS.HOME), TRUE, store)

goToHomeTimeout ==
    /\ Due("home")
    /\ Complete(Head(timers),
                Reset([Current EXCEPT !.selectedCategory = Null], SCREENS.HOME),
                TRUE, store)

\* a timer that fires after the component was unmounted: its state updates
\* are dropped, its own store operations still happen
TimeoutUnmounted ==
    /\ phase = "crashed"
    /\ timers # <<>>
    /\ timers' = Tail(timers)
    /\ store' = IF variant = "single" /\ Head(timers).kind = "restart"
                THEN Absent ELSE store
    /\ UNCHANGED <<variant, questions, results, phase, state, isTransitioning, lastDone, leftSession>>

\* ------------------------------------------------------------ specification
Next ==
    \/ Mount
    \/ \E categoryKey \in CategoryKeys : selectCategory(categoryKey)
    \/ startQuiz
    \/ \E option \in Options : selectOption(option)
    \/ nextQuestion
    \/ prevQuestion
    \/ finishQuiz
    \/ restartQuiz
    \/ goToHome
    \/ selectCategoryTimeout
    \/ startQuizTimeout
    \/ nextQuestionTimeout
    \/ prevQuestionTimeout
    \/ finishQuizTimeout
    \/ restartQuizTimeout
    \/ goToHomeTimeout
    \/ TimeoutUnmounted

Spec == Init /\ [][Next]_vars

\* the handlers called as functions, whatever the screen renders
NextEngine == Next \/ nextQuestionOnLast

SpecEngine == Init /\ [][NextEngine]_vars

\* the page opened on any content of the store
SpecBoot == InitBoot /\ [][Next]_vars

\* the page opened for the first time: nothing is stored
InitFresh == Init /\ store = Absent

SpecFresh == InitFresh /\ [][Next]_vars

\* the page is closed or reloaded, at any moment, and opened again: the
\* component state starts over, pending timers are gone, the store stays
Reopen ==
    /\ phase # "init"
    /\ phase' = "init"
    /\ SetState(InitialState)
    /\ isTransitioning' = FALSE
    /\ timers' = <<>>
    /\ lastDone' = NoneDone
    /\ leftSession' = [c \in CategoryKeys |-> NotLeft]
    /\ UNCHANGED <<variant, store, questions, results>>

NextReopen == Next \/ Reopen

\* visit after visit, each starting on what the last one stored
SpecReopen == Init /\ [][NextReopen]_vars

\* ---------------------------------------------- numbers (IEEE 754 binary64)
\* The quotient and the product of the percentage are Numbers: binary
\* floating point with 53 significant bits, every operation rounded to the
\* nearest such value, ties to even.  A value is kept exactly: a natural
\* number over 2^scale, the natural number as limbs of LimbBits bits, lowest
\* limb first.
Precision == 53

LimbBits == 16

Limb == 2 ^ LimbBits

\* the limbs plus a small number
RECURSIVE Plus(_, _)
Plus(limbs, carry) ==
    IF carry = 0 THEN limbs
    ELSE IF limbs = <<>> THEN <<carry>>
    ELSE <<(Head(limbs) + carry) % Limb>>
            \o Plus(Tail(limbs), (Head(limbs) + carry) \div Limb)

\* the limbs times a small number
RECURSIVE Times(_, _, _)
Times(limbs, k, carry) ==
    IF limbs = <<>> THEN (IF carry = 0 THEN <<>> ELSE <<carry>>)
    ELSE LET t == Head(limbs) * k + carry
         IN  <<t % Limb>> \o Times(Tail(limbs), k, t \div Limb)

RECURSIVE Value(_)
Value(limbs) == IF limbs = <<>> THEN 0 ELSE Head(limbs) + Limb * Value(Tail(limbs))

\* the number of binary digits of x < Limb
BitsOf(x) == CHOOSE k \in 0 .. LimbBits : x < 2 ^ k /\ (k = 0 \/ 2 ^ (k - 1) <= x)

BitLength(limbs) ==
    IF limbs = <<>> THEN 0
    ELSE LimbBits * (Len(limbs) - 1) + BitsOf(limbs[Len(limbs)])

\* the limbs without their lowest `bits` binary digits (what is left is small)
ShiftRight(limbs, bits) ==
    LET whole == bits \div LimbBits
    IN  IF whole >= Len(limbs) THEN 0
        ELSE Value(SubSeq(limbs, whole + 1, Len(limbs))) \div 2 ^ (bits % LimbBits)

\* zero digits after the binary point of r / n before its first one (0 < r < n)
RECURSIVE LeadingZeros(_, _)
LeadingZeros(r, n) == IF 2 * r >= n THEN 0 ELSE 1 + LeadingZeros(2 * r, n)

\* long division: the first `bits` binary digits of r / n after the point
\* (r < n < 2^15), a limb at a time, and what is left of r
RECURSIVE LongDivision(_, _, _)
LongDivision(r, n, bits) ==
    IF bits = 0 THEN [limbs |-> <<>>, rest |-> r]
    ELSE LET width == IF bits % LimbBits = 0 THEN LimbBits ELSE bits % LimbBits
             lower == LongDivision((r * 2 ^ width) % n, n, bits - width)
         IN  [limbs |-> Append(lower.limbs, (r * 2 ^ width) \div n),
              rest |-> lower.rest]

\* s / n, for 0 <= s <= n and n >= 1: Precision digits from the first one
\* on, the last of them rounded
Divide(s, n) ==
    IF s = 0 THEN [limbs |-> <<>>, scale |-> 0]
    ELSE IF s = n THEN [limbs |-> <<1>>, scale |-> 0]
    ELSE LET zeros == LeadingZeros(s, n)
             digits == LongDivision(s * 2 ^ zeros, n, Precision)
             up == \/ 2 * digits.rest > n
                   \/ 2 * digits.rest = n /\ Head(digits.limbs) % 2 = 1
         IN  [limbs |-> Plus(digits.limbs, IF up THEN 1 ELSE 0),
              scale |-> zeros + Precision]

\* the nearest value of Precision digits, ties to even, when fewer than
\* LimbBits digits have to go
RoundToPrecision(limbs) ==
    LET drop == BitLength(limbs) - Precision
    IN  IF drop <= 0 THEN limbs
        ELSE LET low == Head(limbs)
                 removed == low % 2 ^ drop
                 half == 2 ^ (drop - 1)
                 up == \/ removed > half
                       \/ removed = half /\ (low \div 2 ^ drop) % 2 = 1
             IN  Plus(<<low - removed>> \o Tail(limbs), IF up THEN 2 ^ drop ELSE 0)

\* x * 100
Times100(x) == [limbs |-> RoundToPrecision(Times(x.limbs, 100, 0)), scale |-> x.scale]

\* Math.round(x) for x >= 0: the nearest integer, a half going up
MathRound(x) ==
    ShiftRight(x.limbs, x.scale)
      + (IF x.scale >= 1 THEN ShiftRight(x.limbs, x.scale - 1) % 2 ELSE 0)

\* ----------------------------------------------------------- results screen
\* question sets up to this length are taken with every choice of records
\* and answers
MaxRecords == 3
\* uniform question sets (one record repeated) are taken up to this length
MaxTotal == 40

\* the value of a missing property
Undefined == "undefined"

\* obj[key]
Read(obj, key) == IF key \in DOMAIN obj THEN obj[key] ELSE Undefined

\* A question record of part1.json / part2.json, as far as scoring reads it:
\* the correct answer is in a field spelled `answer` or `correctAnswer`.
QuestionRecords ==
    {[answer |-> o] : o \in Options} \cup {[correctAnswer |-> o] : o \in Options}

\* the field either component reads
AnswerField(v) == IF v = "multi" THEN "answer" ELSE "correctAnswer"

\* userAnswers[index] === q.answer  (=== q.correctAnswer)
isCorrect(v, qs, answers, index) ==
    Read(answers, index) = Read(qs[index + 1], AnswerField(v))

\* the forEach loop counts the indices whose comparison is true
calculateScore(v, qs, answers) ==
    Cardinality({index \in 0 .. (Len(qs) - 1) : isCorrect(v, qs, answers, index)})

getPercentage(v, qs, answers) ==
    MathRound(Times100(Divide(calculateScore(v, qs, answers), Len(qs))))

\* faulty variant: the boundaries belong to the band below
gradeClass_Exclusive(percentage) ==
    IF percentage > 80 THEN "grade-excellent"
    ELSE IF percentage > 60 THEN "grade-good"
    ELSE IF percentage > 40 THEN "grade-average"
    ELSE "grade-low"

gradeClass(percentage) ==
    IF percentage >= 80 THEN "grade-excellent"
    ELSE IF percentage >= 60 THEN "grade-good"
    ELSE IF percentage >= 40 THEN "grade-average"
    ELSE "grade-low"

\* the English half of the text under the percentage
scoreLabel(percentage) ==
    IF percentage >= 80 THEN "Excellent!"
    ELSE IF percentage >= 60 THEN "Good Job!"
    ELSE IF percentage >= 40 THEN "Keep Trying!"
    ELSE "Need More Practice"

\* the results screen is rendered: score card and review list
RenderResults ==
    /\ phase = "ready"
    /\ screen = SCREENS.RESULTS
    /\ results = NotRendered
    /\ questions # <<>>
    /\ LET percentage == getPercentage(variant, questions, userAnswers)
       IN  results' =
             [kind |-> "shown",
              score |-> calculateScore(variant, questions, userAnswers),
              percentage |-> percentage,
              gradeClass |-> gradeClass(percentage),
              label |-> scoreLabel(percentage),
              review |-> [i \in 1 .. Len(questions) |->
                            isCorrect(variant, questions, userAnswers, i - 1)]]
    /\ UNCHANGED <<variant, phase, state, isTransitioning, store, timers,
                   lastDone, leftSession, questions>>

\* the question sets and the answers the results screen is rendered for
QuestionSets ==
    UNION {[1 .. n -> QuestionRecords] : n \in 1 .. MaxRecords}
      \cup {[i \in 1 .. n |-> q] : n \in 1 .. MaxTotal, q \in QuestionRecords}

AnswersTo(qs) ==
    IF Len(qs) <= MaxRecords
    THEN UNION {[S -> Options] : S \in SUBSET (0 .. (Len(qs) - 1))}
    ELSE {[i \in 0 .. (s - 1) |-> "a"] : s \in 0 .. Len(qs)}

\* the quiz was finished on its last question
InitResults ==
    /\ variant \in Variants
    /\ phase = "ready"
    /\ screen = SCREENS.RESULTS
    /\ selectedCategory = IF variant = "multi" THEN "PART1" ELSE Null
    /\ questions \in QuestionSets
    /\ currentQuestion = Len(questions) - 1
    /\ userAnswers \in AnswersTo(questions)
    /\ selectedOption = AnswerOrNull(userAnswers, currentQuestion)
    /\ isTransitioning = FALSE
    /\ store = SaveEffect(variant, Absent, Current)
    /\ timers = <<>>
    /\ lastDone = NoneDone
    /\ leftSession = [c \in CategoryKeys |-> NotLeft]
    /\ results = NotRendered

SpecResults == InitResults /\ [][RenderResults]_vars

\* ------------------------------------------------------------------ claims
\* the timer at the head of the queue fires in this step
Fired(kind) == Due(kind) /\ timers' = Tail(timers)

LastIndex(category) == questionsLength(variant, category) - 1

Categories(st) ==
    IF st.kind = "doc" /\ "categories" \in DOMAIN st.doc THEN st.doc.categories
    ELSE NoCategories

\* C1: nextQuestion with no selection changes nothing.  With a selection s on
\* question k, when its transition completes undisturbed, answers[k] = s, the
\* index is k+1 unless k was the last index (then k), and if it advanced the
\* selection is the answer recorded for k+1 before the call, or none.
C1_NextQuestion ==
    [][ /\ ((nextQuestion \/ nextQuestionOnLast) /\ selectedOption = Null)
            => UNCHANGED vars
        /\ (Fired("next") /\ Undisturbed(Head(timers))) =>
             LET t == Head(timers)
                 k == t.seen.currentQuestion
             IN  /\ k \in DOMAIN userAnswers'
                 /\ userAnswers'[k] = t.seen.selectedOption
                 /\ t.seen.selectedOption # Null
                 /\ currentQuestion' = IF k # LastIndex(selectedCategory) THEN k + 1 ELSE k
                 /\ k # LastIndex(selectedCategory) =>
                      selectedOption' = AnswerOrNull(t.seen.userAnswers, k + 1)
      ]_vars

\* a Next has just completed undisturbed: the index advanced, the answer is
\* committed and the answer recorded earlier for the new question is selected
C1_Witness ==
    /\ lastDone.kind = "next"
    /\ currentQuestion = lastDone.k + 1
    /\ lastDone.k \in DOMAIN userAnswers
    /\ userAnswers[lastDone.k] = lastDone.option
    /\ selectedOption # Null

\* C2: prevQuestion on question 0 changes nothing.  On question k > 0, when
\* its transition completes undisturbed, the index is k-1, a selection held
\* at the call is committed to answers[k] (answers are untouched if there
\* was none), and the selection is answers[k-1], or none.
C2_PrevQuestion ==
    [][ /\ (prevQuestion /\ currentQuestion = 0) => UNCHANGED vars
        /\ (Fired("prev") /\ Undisturbed(Head(timers))) =>
             LET t == Head(timers)
                 k == t.seen.currentQuestion
             IN  /\ k > 0
                 /\ currentQuestion' = k - 1
                 /\ IF t.seen.selectedOption # Null
                    THEN /\ k \in DOMAIN userAnswers'
                         /\ userAnswers'[k] = t.seen.selectedOption
                         /\ \A i \in DOMAIN t.seen.userAnswers \ {k} :
                              i \in DOMAIN userAnswers'
                              /\ userAnswers'[i] = t.seen.userAnswers[i]
                    ELSE userAnswers' = t.seen.userAnswers
                 /\ selectedOption' = AnswerOrNull(userAnswers', k - 1)
      ]_vars

\* a Previous has just completed undisturbed, with a restored selection
C2_Witness ==
    /\ lastDone.kind = "prev"
    /\ lastDone.option # Null
    /\ currentQuestion = lastDone.k - 1
    /\ userAnswers[lastDone.k] = lastDone.option
    /\ selectedOption # Null

\* C3: the screen goes from QUIZ to RESULTS only when the timer of finishQuiz
\* fires, and finishQuiz ran on the last question with a selection, which it
\* committed to answers; undisturbed, that is still the index, the selection
\* and the answer when the screen changes.  finishQuiz with no selection
\* changes nothing.
C3_Finish ==
    [][ /\ (finishQuiz /\ selectedOption = Null) => UNCHANGED vars
        /\ (screen = SCREENS.QUIZ /\ screen' = SCREENS.RESULTS) =>
             /\ Fired("finish")
             /\ LET t == Head(timers)
                    k == t.seen.currentQuestion
                IN  /\ k = LastIndex(t.seen.selectedCategory)
                    /\ t.seen.selectedOption # Null
                    /\ t.seen.screen = SCREENS.QUIZ
                    /\ k \in DOMAIN t.set
                    /\ t.set[k] = t.seen.selectedOption
        /\ (Fired("finish") /\ Undisturbed(Head(timers))) =>
             /\ screen = SCREENS.QUIZ /\ screen' = SCREENS.RESULTS
             /\ currentQuestion' = LastIndex(selectedCategory')
             /\ selectedOption' # Null
             /\ currentQuestion' \in DOMAIN userAnswers'
             /\ userAnswers'[currentQuestion'] = selectedOption'
      ]_vars

\* the quiz has just been finished
C3_Witness ==
    /\ lastDone.kind = "finish"
    /\ screen = SCREENS.RESULTS
    /\ phase = "ready"
    /\ userAnswers[currentQuestion] = lastDone.option

\* C4 as stated: Next then Previous, each completed undisturbed and nothing
\* in between, from any question k with selection s: back on k with s
\* selected and answers[k] = s.
RoundTrip(ks) ==
    (/\ Fired("prev") /\ Undisturbed(Head(timers))
     /\ lastDone.kind = "next"
     /\ lastDone.k \in ks) =>
        /\ currentQuestion' = lastDone.k
        /\ selectedOption' = lastDone.option
        /\ lastDone.k \in DOMAIN userAnswers'
        /\ userAnswers'[lastDone.k] = lastDone.option

C4_AnyIndex == [][RoundTrip(0 .. LastIndex(selectedCategory))]_vars

\* C4 amended: the same from every question k below the last one.
C4_RoundTrip == [][RoundTrip(0 .. LastIndex(selectedCategory) - 1)]_vars

\* the round trip is under way: Next completed, Previous was clicked
C4_Witness ==
    /\ lastDone.kind = "next"
    /\ timers # <<>>
    /\ Head(timers).kind = "prev"
    /\ Undisturbed(Head(timers))
    /\ lastDone.k < LastIndex(selectedCategory)
    /\ Head(timers).seen.selectedOption # Null

\* C5: while a quiz is shown for a question set, the index is within it.
C5_IndexInRange ==
    (/\ phase # "init"
     /\ screen \in {SCREENS.QUIZ, SCREENS.RESULTS}
     /\ variant = "multi" => selectedCategory # Null)
    => currentQuestion \in 0 .. LastIndex(selectedCategory)

\* C6: a category that was left and is selected again opens with the index,
\* the answers and the selection it had when it was left, whatever was done
\* in other categories meanwhile.
C6_Resume ==
    [][ (/\ Fired("select")
         /\ leftSession[Head(timers).arg].kind = "left") =>
            /\ selectedCategory' = Head(timers).arg
            /\ screen' = SCREENS.QUIZ
            /\ currentQuestion' = leftSession[Head(timers).arg].session.currentQuestion
            /\ userAnswers' = leftSession[Head(timers).arg].session.userAnswers
            /\ selectedOption' = leftSession[Head(timers).arg].session.selectedOption
      ]_vars

\* C7: when goToHome completes, the stored sessions of all categories,
\* the one being left included, are what they were, and the index, the
\* answers and the selection in memory are the defaults.
C7_HomeKeepsSessions ==
    [][ Fired("home") =>
            /\ Categories(store') = Categories(store)
            /\ screen' = SCREENS.HOME
            /\ selectedCategory' = Null
            /\ currentQuestion' = 0
            /\ userAnswers' = EmptyAnswers
            /\ selectedOption' = Null
      ]_vars

\* back on the home screen with the progress of the category left in store
C7_Witness ==
    /\ lastDone.kind = "home"
    /\ screen = SCREENS.HOME
    /\ userAnswers = EmptyAnswers
    /\ \E c \in DOMAIN Categories(store) :
          /\ leftSession[c].kind = "left"
          /\ Categories(store)[c].userAnswers # EmptyAnswers
          /\ Categories(store)[c] = leftSession[c].session

\* C8: when restartQuiz completes with category c active, the stored session
\* of c is the default session and no other stored session has changed.
C8_RestartClearsCategory ==
    [][ (Fired("restart") /\ variant = "multi" /\ selectedCategory # Null) =>
            /\ DOMAIN Categories(store') = DOMAIN Categories(store) \cup {selectedCategory}
            /\ Categories(store')[selectedCategory] = DefaultSession
            /\ \A c \in DOMAIN Categories(store) \ {selectedCategory} :
                  Categories(store')[c] = Categories(store)[c]
      ]_vars

\* C9 as stated: in both variants Restart leads to the quiz screen on
\* question 0.
RestartLeadsTo(toScreen) ==
    /\ Fired("restart") =>
          /\ Head(timers).seen.screen = SCREENS.RESULTS
          /\ screen' = toScreen
          /\ currentQuestion' = 0
    /\ (Fired("restart") /\ Undisturbed(Head(timers))) => phase' = "ready"

C9_RestartToQuiz == [][RestartLeadsTo(SCREENS.QUIZ)]_vars

\* C9 amended: Restart leads to question 0, on the quiz screen in the
\* multi-category variant and on the home screen in the single-category one.
C9_Restart ==
    [][RestartLeadsTo(IF variant = "multi" THEN SCREENS.QUIZ ELSE SCREENS.HOME)]_vars

\* a restart has just completed
C9_Witness ==
    /\ lastDone.kind = "restart"
    /\ phase = "ready"
    /\ currentQuestion = 0
    /\ userAnswers = EmptyAnswers

\* C10: single-category variant: once restartQuiz has completed, the key is
\* gone from the store and a load gives the initial state.
C10_RestartRemovesKey ==
    (variant = "single" /\ lastDone.kind = "restart") =>
        /\ store = Absent
        /\ LoadSingle(store) = InitialState

\* reads and writes of the store succeed
StoreWorks == store.kind \notin {"unavailable", "full"}

\* the stored document mirrors memory: its current view is the screen and the
\* selected category, and the stored session (of the selected category; of
\* the only one in the single-category component) is the index, the answers
\* and the selection
StoreMirrorsMemory ==
    /\ store.kind = "doc"
    /\ IF variant = "multi"
       THEN /\ "currentView" \in DOMAIN store.doc
            /\ store.doc.currentView =
                   [screen |-> screen, selectedCategory |-> selectedCategory]
            /\ selectedCategory # Null =>
                   getSavedCategoryData(store, selectedCategory)
                      = {SessionOf(Current)}
       ELSE store.doc = [screen |-> screen, currentQuestion |-> currentQuestion,
                         userAnswers |-> userAnswers,
                         selectedOption |-> selectedOption]

\* C11: write-through persistence.  Every step of the mounted component that
\* changes the screen, the selected category, the index, the answers or the
\* selection leaves, on a store that works, a stored document that mirrors
\* memory.
C11_WriteThrough ==
    [][phase = "ready" /\ phase' = "ready" /\ Current' # Current /\ StoreWorks'
         => StoreMirrorsMemory']_vars

\* C12: round trip.  Saving the state of a mounted component and loading the
\* store on a fresh initialisation gives exactly that state.
C12_RoundTrip ==
    phase = "ready" /\ StoreWorks =>
        LoadEffect(variant, SaveEffect(variant, store, Current)) = Current

\* C13: opened on a store whose key is absent or holds a value that does not
\* parse, the component mounts (no error escapes the load) in the all-default
\* state: HOME, no category, index 0, no answers, no selection.
C13_DefaultsOnBadStore ==
    [][phase = "init" /\ store.kind \in {"absent", "corrupt"}
         => phase' = "ready" /\ Current' = InitialState]_vars

\* the component has mounted on an unparseable value and nothing else has
\* happened since
C13_Witness ==
    /\ phase = "ready"
    /\ store = Corrupt
    /\ Current = InitialState
    /\ ~isTransitioning
    /\ leftSession = [c \in CategoryKeys |-> NotLeft]

\* the value of a field the load effect reads from a stored object: the
\* stored one if the field is present, its default if it is missing
Loaded(obj, field, default) == IF field \in DOMAIN obj THEN obj[field] ELSE default

\* C14: opened on a stored document with any of its fields missing, the load
\* gives every missing field its default and every present field its stored
\* value, and the component mounts on that state (no fatal error), also when
\* the stored screen is quiz or results and no category is stored.
C14_PartialDocument ==
    [][phase = "init" /\ store.kind = "doc"
         => LET doc == store.doc
                view == IF variant = "multi"
                        THEN Loaded(doc, "currentView", <<>>) ELSE doc
                category == Loaded(view, "selectedCategory", Null)
                sessions == Loaded(doc, "categories", <<>>)
                session == IF variant = "single" THEN doc
                           ELSE IF category \in DOMAIN sessions
                                THEN sessions[category] ELSE <<>>
            IN  /\ phase' = "ready"
                /\ screen' = Loaded(view, "screen", SCREENS.HOME)
                /\ selectedCategory' = category
                /\ currentQuestion' = Loaded(session, "currentQuestion", 0)
                /\ userAnswers' = Loaded(session, "userAnswers", EmptyAnswers)
                /\ selectedOption' = Loaded(session, "selectedOption", Null)]_vars

\* C15: on a store whose reads or writes throw, no error escapes: the
\* component mounts in the state it has with a working empty store, and no
\* later step leaves it unmounted.
C15_StoreFailureContained ==
    [][~StoreWorks
         => /\ phase' # "crashed"
            /\ phase = "init" => Current' = InitialState]_vars

\* the correct answer of a question record, however its field is spelled
CorrectAnswer(q) == IF "correctAnswer" \in DOMAIN q THEN q.correctAnswer ELSE q.answer

\* the indices whose recorded answer is the correct answer of their question
RightlyAnswered ==
    {i \in 0 .. (Len(questions) - 1) :
        i \in DOMAIN userAnswers /\ userAnswers[i] = CorrectAnswer(questions[i + 1])}

\* C16: the score shown is the number of indices whose recorded answer is
\* the correct answer of their question; an index without a recorded answer
\* does not count; the score is between 0 and the number of questions.
C16_Score ==
    results.kind = "shown" =>
        /\ results.score = Cardinality(RightlyAnswered)
        /\ results.score <= Cardinality(DOMAIN userAnswers)
        /\ results.score \in 0 .. Len(questions)

\* C17: whichever way a question record spells its correct answer, the
\* review marks a question correct exactly when the recorded answer is that
\* answer, and the score counts exactly those questions.
C17_EitherSpelling ==
    results.kind = "shown" =>
        /\ \A i \in 0 .. (Len(questions) - 1) :
              results.review[i + 1] <=> i \in RightlyAnswered
        /\ results.score = Cardinality({i \in 0 .. (Len(questions) - 1) :
                                           results.review[i + 1]})
        /\ Cardinality({i \in 0 .. (Len(questions) - 1) : results.review[i + 1]})
              = Cardinality(RightlyAnswered)

\* C18: with s the score and n the number of questions, the percentage is
\* 100 s / n rounded to the nearest integer, a half going up; it is between
\* 0 and 100; and it is not below the percentage of s - 1.
C18_Percentage ==
    results.kind = "shown" =>
        LET n == Len(questions)
            s == results.score
        IN  /\ results.percentage = (200 * s + n) \div (2 * n)
            /\ results.percentage \in 0 .. 100
            /\ s > 0 => MathRound(Times100(Divide(s - 1, n))) <= results.percentage

\* the bands and the class and the text that denote each
GradeBands == [excellent |-> 80 .. 100, good |-> 60 .. 79,
               average |-> 40 .. 59, low |-> 0 .. 39]

BandClass == [excellent |-> "grade-excellent", good |-> "grade-good",
              average |-> "grade-average", low |-> "grade-low"]

BandLabel == [excellent |-> "Excellent!", good |-> "Good Job!",
              average |-> "Keep Trying!", low |-> "Need More Practice"]

\* C19: the percentage shown lies in exactly one band (80 and more
\* excellent, 60 to 79 good, 40 to 59 average, below 40 low), and the grade
\* class and the grade text both denote that band.
C19_GradeBands ==
    results.kind = "shown" =>
        /\ Cardinality({b \in DOMAIN GradeBands :
                           results.percentage \in GradeBands[b]}) = 1
        /\ \A b \in DOMAIN GradeBands :
              results.percentage \in GradeBands[b] =>
                  /\ results.gradeClass = BandClass[b]
                  /\ results.label = BandLabel[b]

\* 2 of 3 right: 67 per cent, good
C19_Witness ==
    /\ results.kind = "shown"
    /\ Len(questions) = 3
    /\ results.score = 2
    /\ results.percentage = 67
    /\ results.gradeClass = "grade-good"
    /\ results.label = "Good Job!"

\* C20: isTransitioning is true from the moment an intent is accepted until
\* its delayed state change has been applied and false afterwards: in a
\* mounted component it is true exactly while a delayed change is pending.
C20_BusyWhilePending ==
    phase = "ready" => (isTransitioning <=> timers # <<>>)

\* a step that is a user intent, not a timer callback: no pending timer is
\* consumed
IntentStep == phase = "ready" /\ Len(timers') >= Len(timers)

\* C21: while isTransitioning is true no intent is accepted: an intent issued
\* then changes nothing, so that at most one delayed change is ever pending.
C21_NoIntentWhileBusy ==
    [][ /\ (isTransitioning /\ IntentStep) => UNCHANGED vars
        /\ Len(timers') <= 1
      ]_vars

\* C22: in the multi-category component, whenever the screen is QUIZ or
\* RESULTS a category is selected.
C22_CategorySelected ==
    (variant = "multi" /\ screen \in {SCREENS.QUIZ, SCREENS.RESULTS})
        => selectedCategory # Null

\* the pending Next callbacks behind the one at the head of the queue
LaterNext == {j \in 2 .. Len(timers) : timers[j].kind = "next"}

\* C23: Next issued again before the first call's advance is applied.  When
\* the first call's callback runs, the index becomes one above the index k
\* that call was made on, and every later call that is pending leads to
\* k + 1 as well: the index ends at k + 1 and no question is skipped.
C23_DoubleNext ==
    [][ (Fired("next") /\ LaterNext # {}) =>
            LET k == Head(timers).seen.currentQuestion
            IN  /\ currentQuestion' = k + 1
                /\ \A j \in LaterNext : timers[j].seen.currentQuestion + 1 = k + 1
      ]_vars

\* every question in ks has a recorded answer
Answered(ks) == ks \subseteq DOMAIN userAnswers

\* C24: forward navigation is gated.  Whenever the quiz or the results are on
\* screen, every question before the current one has a recorded answer, and
\* on the results screen every question has one.
C24_ForwardGated ==
    (phase # "init" /\ screen \in {SCREENS.QUIZ, SCREENS.RESULTS}) =>
        /\ Answered(0 .. currentQuestion - 1)
        /\ screen = SCREENS.RESULTS => Answered(0 .. LastIndex(selectedCategory))

\* C25: the multi-category component opened on a value that does not parse.
\* The next step that changes the screen, the category, the index, the
\* answers or the selection replaces that value by a document that mirrors
\* memory.
C25_RecoversFromCorrupt ==
    [][ (/\ variant = "multi"
         /\ phase = "ready" /\ phase' = "ready"
         /\ store = Corrupt
         /\ Current' # Current)
            => store' # Corrupt /\ StoreMirrorsMemory'
      ]_vars

\* C26: startup keeps stored progress.  Opened on a document an earlier
\* visit stored, the component mounts, and when its mount effects have
\* settled the store holds what it held before and memory mirrors it.
C26_StartupKeepsProgress ==
    [][ (phase = "init" /\ store.kind = "doc") =>
            /\ phase' = "ready"
            /\ store' = store
            /\ StoreMirrorsMemory'
      ]_vars

\* a later visit has started on the quiz in progress that the visit before
\* stored: PART1 is open with its answers, and PART2 has a stored session
\* although it was not opened in this visit
C26_Witness ==
    /\ variant = "multi"
    /\ phase = "ready"
    /\ timers = <<>>
    /\ ~isTransitioning
    /\ lastDone = NoneDone
    /\ screen = SCREENS.QUIZ
    /\ selectedCategory = "PART1"
    /\ userAnswers # EmptyAnswers
    /\ StoreMirrorsMemory
    /\ "PART2" \in DOMAIN Categories(store)
    /\ leftSession = [c \in CategoryKeys |-> NotLeft]

====
